---- MODULE Spec2Model ----
(***************************************************************************)
(* A model of the two notebooks of summer-school-2023:                     *)
(*   - the Neural-ODE notebook (init_random_params, fcn, NODE_gd, the      *)
(*     Example 0 training loop, the Example 1 data and model cells and the *)
(*     checkpointed fit);                                                  *)
(*   - the KL-divergence notebook (the kl(P_x, Q_x) call).                 *)
(*                                                                         *)
(* Arrays are sequences (a matrix is a sequence of rows).  Floating-point  *)
(* values are abstracted to integers: every array entry is an integer and  *)
(* tanh is rounded to the nearest integer.  Where the code scales by a     *)
(* fraction (step_size, probabilities) the values are held in fixed point. *)
(* Each part of the notebooks has its own specification (SpecParams,       *)
(* SpecFcn, SpecTrain, SpecData, SpecFit, SpecKL); the variables of the    *)
(* other parts stay idle in it.                                            *)
(***************************************************************************)
EXTENDS Integers, Sequences, FiniteSets, TLC

VARIABLES
    \* init_random_params(N, rng): one call
    N, rng, params, ip_pc,
    \* fcn(theta, xs): one call
    theta, xs, outputs, fcn_pc,
    \* Example 0: the globals of the notebook, the list objects they refer to,
    \* the position in the training-loop cell, the range iterator, and the
    \* gradients local of the last NODE_gd call
    input, target, NODE_width, step_size, train_iters, NODE_theta,
    NODE_L2loss, L2loss_bound, i, range_pos, pc, heap, gradients,
    \* Example 1: ODE_model.fit with the checkpoint callback: epochs run, the
    \* loss history, the callback's best value, the epoch whose weights are in
    \* the file "weights" (0: nothing saved yet)
    epoch, losses, best, saved, fit_pc,
    \* Example 1: the model the model cell builds, and whether Exercise 3 was
    \* solved, which binds the names y and y_prime (fit_pc also tells the
    \* position in the data and model cells)
    ODE_model, y_bound,
    \* KL Example 0: the two arrays, and the value of kl(P_x, Q_x)
    P_x, Q_x, kl_out, kl_pc

ipVars    == <<N, rng, params, ip_pc>>
fcnVars   == <<theta, xs, outputs, fcn_pc>>
trainVars == <<input, target, NODE_width, step_size, train_iters, NODE_theta,
               NODE_L2loss, L2loss_bound, i, range_pos, pc, heap, gradients>>
fitVars   == <<epoch, losses, best, saved, fit_pc, ODE_model, y_bound>>
klVars    == <<P_x, Q_x, kl_out, kl_pc>>
vars      == <<ipVars, fcnVars, trainVars, fitVars, klVars>>

(***************************************************************************)
(* Bounds of the model.                                                    *)
(***************************************************************************)
MaxWidth  == 2      \* largest layer size drawn for a width list
MaxDepth  == 3      \* longest width list drawn
MaxRngPos == 3      \* draws the shared RandomState may already have made
MaxBatch  == 2      \* rows of an input batch
MaxTrainDepth == 2  \* longest width list the training loop is run on
MaxTrainIters == 3  \* largest train_iters (the notebook's is 1000)
MaxLossId == 2      \* the loss functions a solution of Exercise 2 is drawn from
MaxEpochs == 4      \* epochs of ODE_model.fit (the notebook's is 4500)
MaxLossVal == 2     \* an epoch's training loss is one of 0..MaxLossVal
LogDen == 3         \* probabilities are multiples of 1/2^LogDen
MaxPoints == 4      \* points a distribution is over
MaxKlRows == 2      \* distributions in a batch
MaxSamples == 3     \* samples of the Example 1 input (the notebook's is 200)
MaxTime == 3        \* a sample of the Example 1 input is one of 0..MaxTime

(***************************************************************************)
(* Program constants.                                                      *)
(***************************************************************************)
NODE_width_value == <<2, 20, 1>>
T_ODE == 2
\* parameters are held in fixed point, in units of 1/Scale
Scale == 10000
\* step_size = 0.0005, in units of 1/Scale
step_size_value == 5

(***************************************************************************)
(* Helpers on sequences.                                                   *)
(***************************************************************************)
RECURSIVE SeqsUpTo(_, _)
SeqsUpTo(S, n) ==
    IF n = 0 THEN {<<>>}
    ELSE LET shorter == SeqsUpTo(S, n - 1)
         IN  shorter \cup {Append(s, e) : s \in {t \in shorter : Len(t) = n - 1}, e \in S}

SeqsOfLen(S, n) == {s \in SeqsUpTo(S, n) : Len(s) = n}

RECURSIVE SumSeq(_)
SumSeq(s) == IF s = <<>> THEN 0 ELSE Head(s) + SumSeq(Tail(s))

(***************************************************************************)
(* numpy.random.RandomState: a seeded pseudo-random stream.  The state is  *)
(* the number of values drawn so far; draw number k is Randn(k).           *)
(***************************************************************************)
Randn(k) == ((k * 7 + 3) % 5) - 2

\* rng.randn(p, q): p*q draws, filled row by row, starting at stream position r
RandnMatrix_transposed(r, p, q) ==
    [a \in 1..q |-> [c \in 1..p |-> Randn(r + (a - 1) * p + (c - 1))]]

RandnMatrix(r, p, q) == [a \in 1..p |-> [c \in 1..q |-> Randn(r + (a - 1) * q + (c - 1))]]

\* rng.randn(q): q draws starting at stream position r
RandnVector(r, q) == [c \in 1..q |-> Randn(r + (c - 1))]

(***************************************************************************)
(* init_random_params(N, rng)                                              *)
(*   return [(rng.randn(p, q), rng.randn(q))                               *)
(*           for p, q, in zip(N[:-1], N[1:])]                              *)
(***************************************************************************)
\* a variant that zips the two slices the other way round: zip(N[1:], N[:-1])
ZipPairs_swapped(n) == [j \in 1..(Len(n) - 1) |-> <<n[j + 1], n[j]>>]

\* zip(N[:-1], N[1:]): the consecutive pairs of N (none when len(N) < 2)
ZipPairs(n) == [j \in 1..(Len(n) - 1) |-> <<n[j], n[j + 1]>>]

\* values one (weight, bias) pair of sizes <<p, q>> draws from the stream
DrawsOf(pq) == pq[1] * pq[2] + pq[2]

RECURSIVE DrawsBefore(_, _)
DrawsBefore(pairs, j) ==
    IF j <= 1 THEN 0 ELSE DrawsBefore(pairs, j - 1) + DrawsOf(pairs[j - 1])

init_random_params(n, r) ==
    LET pairs == ZipPairs(n)
    IN  [j \in 1..Len(pairs) |->
            LET p   == pairs[j][1]
                q   == pairs[j][2]
                at  == r + DrawsBefore(pairs, j)
            IN  <<RandnMatrix(at, p, q), RandnVector(at + p * q, q)>>]

\* the stream position the call leaves the shared RandomState at
RngAfter(n, r) == r + DrawsBefore(ZipPairs(n), Len(ZipPairs(n)) + 1)

(***************************************************************************)
(* jax.numpy primitives on integer arrays.                                 *)
(***************************************************************************)
\* jnp.tanh, rounded to the nearest integer
Tanh(x) == IF x > 0 THEN 1 ELSE IF x < 0 THEN -1 ELSE 0

TanhArr(m) == [a \in 1..Len(m) |-> [c \in 1..Len(m[a]) |-> Tanh(m[a][c])]]

\* jnp.dot(xs, w) is defined when every row of xs is as long as w has rows
DotOK(m, w) == \A a \in 1..Len(m) : Len(m[a]) = Len(w)

Dot(m, w) ==
    [a \in 1..Len(m) |->
        [c \in 1..Len(w[1]) |-> SumSeq([k \in 1..Len(w) |-> m[a][k] * w[k][c]])]]

\* m + b, the bias broadcast over the rows
AddBias(m, b) == [a \in 1..Len(m) |-> [c \in 1..Len(m[a]) |-> m[a][c] + b[c]]]

(***************************************************************************)
(* fcn(theta, xs)                                                          *)
(*   for w, b in theta:                                                    *)
(*     outputs = jnp.dot(xs, w) + b                                        *)
(*     xs = jnp.tanh(outputs)                                              *)
(*   return outputs                                                        *)
(* FcnLoop carries the two locals through the layers from layer k on;      *)
(* outputs is "unbound" until the first iteration binds it.                *)
(***************************************************************************)
\* a variant whose loop keeps the activation in outputs: outputs = tanh(dot + b)
RECURSIVE FcnLoop_activated(_, _, _, _)
FcnLoop_activated(th, k, x, out) ==
    IF k > Len(th) THEN out
    ELSE IF ~DotOK(x, th[k][1]) THEN [status |-> "TypeError", value |-> <<>>]
    ELSE LET o == TanhArr(AddBias(Dot(x, th[k][1]), th[k][2]))
         IN  FcnLoop_activated(th, k + 1, o, [status |-> "ok", value |-> o])

RECURSIVE FcnLoop(_, _, _, _)
FcnLoop(th, k, x, out) ==
    IF k > Len(th) THEN out
    ELSE IF ~DotOK(x, th[k][1]) THEN [status |-> "TypeError", value |-> <<>>]
    ELSE LET o == AddBias(Dot(x, th[k][1]), th[k][2])
         IN  FcnLoop(th, k + 1, TanhArr(o), [status |-> "ok", value |-> o])

fcn(th, x) ==
    LET out == FcnLoop(th, 1, x, [status |-> "unbound", value |-> <<>>])
    IN  IF out.status = "unbound"
        THEN [status |-> "UnboundLocalError", value |-> <<>>]
        ELSE out

(***************************************************************************)
(* Inputs the calls are applied to.                                        *)
(***************************************************************************)
\* width lists: every list of up to MaxDepth sizes in 1..MaxWidth, and the
\* notebook's own NODE_width
WidthLists == SeqsUpTo(1..MaxWidth, MaxDepth) \cup {NODE_width_value}

\* an evenly spaced batch of m rows of the given width (the notebook builds its
\* input with jnp.linspace and jnp.reshape)
Grid(m, width, start) ==
    [a \in 1..m |-> [c \in 1..width |-> start + (a - 1) * width + (c - 1)]]

GridStarts == {-2, -1, 0, 1}

\* the width of the input the parameters of width list n take
InWidth(n) == IF Len(n) >= 1 THEN n[1] ELSE 1

Idle == "idle"

TrainIdle ==
    /\ input = <<>> /\ target = <<>> /\ NODE_width = <<>> /\ step_size = 0
    /\ train_iters = 0 /\ NODE_theta = 1 /\ NODE_L2loss = 0 /\ L2loss_bound = FALSE
    /\ i = -1 /\ range_pos = 0 /\ pc = Idle /\ heap = <<>> /\ gradients = <<>>

KlIdle == P_x = <<>> /\ Q_x = <<>> /\ kl_out = [num |-> 0, den |-> 1] /\ kl_pc = Idle

FitIdle ==
    /\ epoch = 0 /\ losses = <<>> /\ best = [inf |-> TRUE, val |-> 0]
    /\ saved = 0 /\ fit_pc = Idle /\ ODE_model = <<>> /\ y_bound = FALSE

IpIdle  == N = <<>> /\ rng = 0 /\ params = <<>> /\ ip_pc = Idle
FcnIdle == theta = <<>> /\ xs = <<>> /\ outputs = <<>> /\ fcn_pc = Idle

(***************************************************************************)
(* One call of init_random_params on a drawn width list.                   *)
(***************************************************************************)
IpInit ==
    /\ N \in WidthLists
    /\ rng \in 0..MaxRngPos
    /\ params = <<>>
    /\ ip_pc = "call"
    /\ FcnIdle
    /\ TrainIdle
    /\ FitIdle
    /\ KlIdle

IpCall ==
    /\ ip_pc = "call"
    /\ params' = init_random_params(N, rng)
    /\ rng' = RngAfter(N, rng)
    /\ ip_pc' = "done"
    /\ UNCHANGED <<N, fcnVars, trainVars, fitVars, klVars>>

IpNext == IpCall

SpecParams == IpInit /\ [][IpNext]_vars

(***************************************************************************)
(* One call of fcn on parameters init_random_params returned and an input  *)
(* batch of matching width.                                                *)
(***************************************************************************)
FcnInit ==
    /\ \E n \in WidthLists, r \in 0..MaxRngPos, m \in 1..MaxBatch, s \in GridStarts :
          /\ theta = init_random_params(n, r)
          /\ xs = Grid(m, InWidth(n), s)
    /\ outputs = <<>>
    /\ fcn_pc = "call"
    /\ IpIdle
    /\ TrainIdle
    /\ FitIdle
    /\ KlIdle

FcnCall ==
    /\ fcn_pc = "call"
    /\ outputs' = fcn(theta, xs)
    /\ fcn_pc' = "done"
    /\ UNCHANGED <<theta, xs, ipVars, trainVars, fitVars, klVars>>

FcnNext == FcnCall

SpecFcn == FcnInit /\ [][FcnNext]_vars

(***************************************************************************)
(* Example 0: the data cell.                                               *)
(*   input = jnp.reshape(jnp.linspace(-2.5, 2.5, 15), (15, 1))             *)
(*   target = input**3 + 0.1 * input                                       *)
(* input is held exactly in units of 1/14 (the grid step is 5/14) and      *)
(* target in units of 1/13720: (v/14)^3 + 0.1 (v/14) = (5 v^3 + 98 v)/13720*)
(***************************************************************************)
input_value  == [k \in 1..15 |-> <<-35 + 5 * (k - 1)>>]
target_value == [k \in 1..15 |->
                   LET v == input_value[k][1] IN <<5 * v * v * v + 98 * v>>]

(***************************************************************************)
(* Arithmetic on parameter lists.                                          *)
(***************************************************************************)
\* every entry of a parameter list multiplied by c
ScaleParams(th, c) ==
    [j \in 1..Len(th) |->
        <<[a \in 1..Len(th[j][1]) |->
              [b \in 1..Len(th[j][1][a]) |-> c * th[j][1][a][b]]],
          [b \in 1..Len(th[j][2]) |-> c * th[j][2][b]]>>]

RECURSIVE SumMatrix(_)
SumMatrix(m) == IF m = <<>> THEN 0 ELSE SumSeq(Head(m)) + SumMatrix(Tail(m))

RECURSIVE SumParams(_)
SumParams(th) ==
    IF th = <<>> THEN 0
    ELSE SumMatrix(Head(th)[1]) + SumSeq(Head(th)[2]) + SumParams(Tail(th))

(***************************************************************************)
(* grad(NODE_L2loss)(theta, xs, ys).  NODE_L2loss is Exercise 2 of the     *)
(* notebook and has no code; a solution is one fixed function, here one of *)
(* the losses 0..MaxLossId.  jax.grad differentiates with respect to the   *)
(* first argument and returns a list shaped like it: GradOf is a function  *)
(* of the loss and of the values of all three arguments, with one entry    *)
(* per entry of theta.                                                     *)
(***************************************************************************)
GradEntry(k) == ((k * 3 + 1) % 7) - 3

GradOf(loss, th, x, y) ==
    LET at == loss + SumParams(th) + SumMatrix(x) + SumMatrix(y)
    IN  [j \in 1..Len(th) |->
           <<[a \in 1..Len(th[j][1]) |->
                 [b \in 1..Len(th[j][1][a]) |-> GradEntry(at + j + a + 2 * b)]],
             [b \in 1..Len(th[j][2]) |-> GradEntry(at + j + 3 * b)]>>]

MinOf(a, b) == IF a <= b THEN a ELSE b

\* w - step_size * dw on a matrix, b - step_size * db on a vector
MatStep(w, dw, step) ==
    [a \in 1..Len(w) |-> [b \in 1..Len(w[a]) |-> w[a][b] - step * dw[a][b]]]
VecStep(b, db, step) == [c \in 1..Len(b) |-> b[c] - step * db[c]]

(***************************************************************************)
(* NODE_gd(theta, xs, ys)                                                  *)
(*   gradients = grad(NODE_L2loss)(theta, xs, ys)                          *)
(*   return [(w - step_size * dw, b - step_size * db)                      *)
(*           for (w, b), (dw, db) in zip(theta, gradients)]                *)
(* step is the global step_size and loss the global NODE_L2loss the body   *)
(* reads.                                                                  *)
(***************************************************************************)
\* a variant whose zip loses the last pair: zip(theta, gradients[:-1])
GdUpdate_short(th, g, step) ==
    [j \in 1..(MinOf(Len(th), Len(g)) - 1) |->
        <<MatStep(th[j][1], g[j][1], step), VecStep(th[j][2], g[j][2], step)>>]

GdUpdate(th, g, step) ==
    [j \in 1..MinOf(Len(th), Len(g)) |->
        <<MatStep(th[j][1], g[j][1], step), VecStep(th[j][2], g[j][2], step)>>]

\* a variant that updates layer by layer, each layer's gradient taken at the
\* list with the earlier layers already updated
RECURSIVE GdSequential(_, _, _, _, _, _)
GdSequential(cur, j, x, y, step, loss) ==
    IF j > Len(cur) THEN cur
    ELSE LET g == GradOf(loss, cur, x, y)
             upd == <<MatStep(cur[j][1], g[j][1], step), VecStep(cur[j][2], g[j][2], step)>>
         IN  GdSequential([cur EXCEPT ![j] = upd], j + 1, x, y, step, loss)

NODE_gd_sequential(th, x, y, step, loss) == GdSequential(th, 1, x, y, step, loss)

NODE_gd(th, x, y, step, loss) == GdUpdate(th, GradOf(loss, th, x, y), step)

\* the other of the two addresses list objects live at
Other(a) == 3 - a

\* the heap after a call of NODE_gd on the list at address at: the list the
\* comprehension builds is a new object, the argument is left as it is
\* a variant that writes the updated pairs into the argument list itself
HeapAfterGd_inplace(h, at, new) == [h EXCEPT ![at] = new, ![Other(at)] = new]

HeapAfterGd(h, at, new) == [h EXCEPT ![Other(at)] = new]

(***************************************************************************)
(* Example 0: the hyperparameter cell and the training-loop cell.          *)
(*   NODE_theta = init_random_params(NODE_width)                           *)
(*   for i in range(train_iters):                                          *)
(*       NODE_theta = NODE_gd(NODE_theta, input, target)                   *)
(* The state starts after the hyperparameter cell.  L2loss_bound tells     *)
(* whether Exercise 2 was solved, which binds the name NODE_L2loss.        *)
(***************************************************************************)
TrainWidths == SeqsUpTo(1..MaxWidth, MaxTrainDepth) \cup {NODE_width_value}

\* range(n) yields 0, 1, ..., n - 1: after pos values it has a next one iff
\* pos < n
RangeHasNext_inclusive(pos, n) == pos <= n

RangeHasNext(pos, n) == pos < n

TrainInit ==
    /\ input = input_value
    /\ target = target_value
    /\ NODE_width \in TrainWidths
    /\ step_size = step_size_value
    /\ train_iters \in 0..MaxTrainIters
    /\ \E r \in 0..MaxRngPos :
          heap = <<ScaleParams(init_random_params(NODE_width, r), Scale), <<>>>>
    /\ NODE_theta = 1
    /\ \/ L2loss_bound = FALSE /\ NODE_L2loss = 0
       \/ L2loss_bound = TRUE /\ NODE_L2loss \in 0..MaxLossId
    /\ i = -1
    /\ range_pos = 0
    /\ pc = "loop"
    /\ gradients = <<>>
    /\ IpIdle
    /\ FcnIdle
    /\ FitIdle
    /\ KlIdle

\* one iteration: i is bound to the next value of the range, NODE_gd returns,
\* and NODE_theta is rebound to the list it returned
Iterate ==
    /\ pc = "loop"
    /\ RangeHasNext(range_pos, train_iters)
    /\ L2loss_bound
    /\ i' = range_pos
    /\ range_pos' = range_pos + 1
    /\ gradients' = GradOf(NODE_L2loss, heap[NODE_theta], input, target)
    /\ heap' = HeapAfterGd(heap, NODE_theta,
                  NODE_gd(heap[NODE_theta], input, target, step_size, NODE_L2loss))
    /\ NODE_theta' = Other(NODE_theta)
    /\ UNCHANGED <<input, target, NODE_width, step_size, train_iters,
                   NODE_L2loss, L2loss_bound, pc, ipVars, fcnVars, fitVars,
                   klVars>>

\* what the loop would do if the NameError were caught and the iteration
\* skipped
IterateNameError_caught ==
    /\ pc = "loop"
    /\ RangeHasNext(range_pos, train_iters)
    /\ ~L2loss_bound
    /\ i' = range_pos
    /\ range_pos' = range_pos + 1
    /\ UNCHANGED <<input, target, NODE_width, step_size, train_iters, NODE_theta,
                   NODE_L2loss, L2loss_bound, pc, heap, gradients, ipVars,
                   fcnVars, fitVars, klVars>>

\* one iteration with NODE_L2loss unbound: line 237 raises NameError, which
\* nothing catches; the cell stops
IterateNameError ==
    /\ pc = "loop"
    /\ RangeHasNext(range_pos, train_iters)
    /\ ~L2loss_bound
    /\ i' = range_pos
    /\ range_pos' = range_pos + 1
    /\ pc' = "NameError"
    /\ UNCHANGED <<input, target, NODE_width, step_size, train_iters, NODE_theta,
                   NODE_L2loss, L2loss_bound, heap, gradients, ipVars, fcnVars,
                   fitVars, klVars>>

\* the range is exhausted: the loop ends
LoopExit ==
    /\ pc = "loop"
    /\ ~RangeHasNext(range_pos, train_iters)
    /\ pc' = "done"
    /\ UNCHANGED <<input, target, NODE_width, step_size, train_iters, NODE_theta,
                   NODE_L2loss, L2loss_bound, i, range_pos, heap, gradients,
                   ipVars, fcnVars, fitVars, klVars>>

TrainNext == Iterate \/ IterateNameError \/ LoopExit

SpecTrain == TrainInit /\ [][TrainNext]_vars

\* the interpreter runs the cell to its end: a step that can be taken is taken
SpecTrainLive == SpecTrain /\ WF_vars(TrainNext)

(***************************************************************************)
(* Example 1: the data cell and the model cell.                            *)
(*   input = np.random.rand(200)*30                                        *)
(*   target = np.array([y(input), y_prime(input)]).T                       *)
(*   ODE_model = tf.keras.Sequential([                                     *)
(*       tf.keras.layers.Dense(100, activation=tf.nn.tanh, input_shape=(1,)),*)
(*       tf.keras.layers.Dense(100, activation=tf.nn.tanh),                *)
(*       tf.keras.layers.Dense(2)])                                        *)
(* y and y_prime are the functions Exercise 3 asks for; the notebook does  *)
(* not define them.  Their values are kept symbolic: y(t) is the record    *)
(* naming the function and the point it is taken at.                       *)
(***************************************************************************)
y(t)       == [fn |-> "y", at |-> t]
y_prime(t) == [fn |-> "y_prime", at |-> t]

\* np.array(rows).T for rows of equal length
Transpose(m) ==
    IF Len(m) = 0 THEN <<>>
    ELSE [k \in 1..Len(m[1]) |-> [c \in 1..Len(m) |-> m[c][k]]]

\* np.array([y(input), y_prime(input)]).T
\* (y and y_prime are applied to the array entry by entry)
TargetOf(inp) ==
    Transpose(<<[k \in 1..Len(inp) |-> y(inp[k])],
                [k \in 1..Len(inp) |-> y_prime(inp[k])]>>)

Dense(units, activation) == [units |-> units, activation |-> activation]

ODE_model_value == <<Dense(100, "tanh"), Dense(100, "tanh"), Dense(2, "linear")>>

\* the inputs np.random.rand draws
Samples == UNION {SeqsOfLen(0..MaxTime, n) : n \in 1..MaxSamples}

DataInit ==
    /\ epoch = 0 /\ losses = <<>> /\ best = [inf |-> TRUE, val |-> 0] /\ saved = 0
    /\ fit_pc = "data"
    /\ ODE_model = <<>>
    /\ y_bound \in BOOLEAN
    /\ IpIdle
    /\ FcnIdle
    /\ TrainIdle
    /\ KlIdle

\* the data cell, with y and y_prime bound
DataCell ==
    /\ fit_pc = "data"
    /\ y_bound
    /\ \E inp \in Samples :
          /\ input' = inp
          /\ target' = TargetOf(inp)
    /\ fit_pc' = "model"
    /\ UNCHANGED <<NODE_width, step_size, train_iters, NODE_theta, NODE_L2loss,
                   L2loss_bound, i, range_pos, pc, heap, gradients, epoch,
                   losses, best, saved, ODE_model, y_bound, ipVars, fcnVars,
                   klVars>>

\* the data cell with y unbound: line 436 binds input, line 437 raises
\* NameError and the cell stops
DataCellNameError ==
    /\ fit_pc = "data"
    /\ ~y_bound
    /\ \E inp \in Samples : input' = inp
    /\ fit_pc' = "NameError"
    /\ UNCHANGED <<target, NODE_width, step_size, train_iters, NODE_theta,
                   NODE_L2loss, L2loss_bound, i, range_pos, pc, heap, gradients,
                   epoch, losses, best, saved, ODE_model, y_bound, ipVars,
                   fcnVars, klVars>>

\* the model cell
ModelCell ==
    /\ fit_pc = "model"
    /\ ODE_model' = ODE_model_value
    /\ fit_pc' = "compiled"
    /\ UNCHANGED <<epoch, losses, best, saved, y_bound, ipVars, fcnVars,
                   trainVars, klVars>>

DataNext == DataCell \/ DataCellNameError \/ ModelCell

SpecData == DataInit /\ [][DataNext]_vars

(***************************************************************************)
(* Example 1: the checkpoint and the fit.                                  *)
(*   checkpoint = tf.keras.callbacks.ModelCheckpoint("weights",            *)
(*       save_weights_only=True, monitor="loss", verbose=1,                *)
(*       save_best_only=True)                                              *)
(*   history = ODE_model.fit(input, target, epochs=4500, batch_size=100,   *)
(*       callbacks=[checkpoint])                                           *)
(* At the end of every epoch fit hands the callback the epoch's logs; with *)
(* save_best_only the callback saves when monitor_op(current, best), and   *)
(* mode "auto" makes monitor_op np.less for a monitor that is no accuracy. *)
(***************************************************************************)
\* a variant without save_best_only
checkpoint_every_epoch ==
    [filepath |-> "weights", save_weights_only |-> TRUE, monitor |-> "loss",
     save_best_only |-> FALSE]

checkpoint ==
    [filepath |-> "weights", save_weights_only |-> TRUE, monitor |-> "loss",
     save_best_only |-> TRUE]

\* the keys of the logs fit passes to on_epoch_end (no validation data, no metrics)
LogKeys == {"loss"}

\* np.less(current, best), best starting at infinity
MonitorOp(current, b) == b.inf \/ current < b.val

FitInit ==
    /\ epoch = 0
    /\ losses = <<>>
    /\ best = [inf |-> TRUE, val |-> 0]
    /\ saved = 0
    /\ fit_pc = "fit"
    /\ ODE_model = ODE_model_value
    /\ y_bound = TRUE
    /\ IpIdle
    /\ FcnIdle
    /\ TrainIdle
    /\ KlIdle

\* one epoch of training and the callback's on_epoch_end
Epoch ==
    /\ fit_pc = "fit"
    /\ epoch < MaxEpochs
    /\ epoch' = epoch + 1
    /\ \E current \in 0..MaxLossVal :
          /\ losses' = Append(losses, current)
          /\ IF ~checkpoint.save_best_only
             THEN saved' = epoch' /\ UNCHANGED best
             ELSE IF checkpoint.monitor \in LogKeys /\ MonitorOp(current, best)
             THEN saved' = epoch' /\ best' = [inf |-> FALSE, val |-> current]
             ELSE UNCHANGED <<saved, best>>
    /\ UNCHANGED <<fit_pc, ODE_model, y_bound, ipVars, fcnVars, trainVars, klVars>>

\* fit returns the history
FitReturn ==
    /\ fit_pc = "fit"
    /\ epoch >= MaxEpochs
    /\ fit_pc' = "done"
    /\ UNCHANGED <<epoch, losses, best, saved, ODE_model, y_bound, ipVars, fcnVars,
                   trainVars, klVars>>

FitNext == Epoch \/ FitReturn

SpecFit == FitInit /\ [][FitNext]_vars

(***************************************************************************)
(* KL Example 0.                                                           *)
(*   kl = tf.keras.losses.KLDivergence()                                   *)
(*   kl(P_x, Q_x).numpy()                                                  *)
(* The loss clips y_true and y_pred to [epsilon, 1], sums                  *)
(* y_true * log(y_true / y_pred) over the last axis and, with the default  *)
(* reduction, averages over the batch.                                     *)
(* Probabilities are held exactly as multiples of 1/2^LogDen and are       *)
(* powers of two (or 0), so that the logarithm of every ratio is an        *)
(* integer; epsilon is the smallest positive value, 1/2^LogDen.  The       *)
(* logarithm is taken to base 2, which scales every divergence by the same *)
(* positive constant.  A divergence is the fraction num/den, in units of   *)
(* 1/2^LogDen.                                                             *)
(***************************************************************************)
RECURSIVE Pow2(_)
Pow2(k) == IF k = 0 THEN 1 ELSE 2 * Pow2(k - 1)

One == Pow2(LogDen)
Epsilon == 1

\* log2 of a power of two
RECURSIVE Lg(_)
Lg(u) == IF u <= 1 THEN 0 ELSE 1 + Lg(u \div 2)

\* K.clip(y, K.epsilon(), 1)
Clip(u) == IF u < Epsilon THEN Epsilon ELSE IF u > One THEN One ELSE u

\* y_true * log(y_true / y_pred) for one entry, after clipping
KlTerm(t, p) == Clip(t) * (Lg(Clip(t)) - Lg(Clip(p)))

\* a variant with the two arguments the other way round
KLDivergence_swapped(y_true, y_pred) ==
    [num |-> SumSeq([r \in 1..Len(y_true) |->
                 SumSeq([c \in 1..Len(y_true[r]) |-> KlTerm(y_pred[r][c], y_true[r][c])])]),
     den |-> Len(y_true)]

\* the sum over the last axis, averaged over the rows
KLDivergence(y_true, y_pred) ==
    [num |-> SumSeq([r \in 1..Len(y_true) |->
                 SumSeq([c \in 1..Len(y_true[r]) |-> KlTerm(y_true[r][c], y_pred[r][c])])]),
     den |-> Len(y_true)]

\* the probabilities: 0 and the powers of two up to 1
Probs == {0} \cup {Pow2(k) : k \in 0..LogDen}

\* the distributions over n points
Dists(n) == {d \in SeqsOfLen(Probs, n) : SumSeq(d) = One}

AllDists == UNION {Dists(n) : n \in 1..MaxPoints}

\* d rotated by k places
Rot(d, k) == [c \in 1..Len(d) |-> d[((c - 1 + k) % Len(d)) + 1]]

\* a batch of rows distributions over the points of d
BatchOf(d, rows) == [r \in 1..rows |-> Rot(d, r - 1)]

\* the arrays of the notebook's own cell, in hundredths:
\*   P_x = [[-0.4, 1], [3, 0.2]]
\*   Q_x = [[0.16, 0.4], [0.14, 2.1]]
Hundred == 100

P_x_value == <<<<-40, 100>>, <<300, 20>>>>
Q_x_value == <<<<16, 40>>, <<14, 210>>>>

\* a value given in hundredths, rounded to the nearest multiple of 1/One
Quantise(h) == (h * One + (Hundred \div 2)) \div Hundred

QuantiseArr(m) == [r \in 1..Len(m) |-> [c \in 1..Len(m[r]) |-> Quantise(m[r][c])]]

\* the cell as the notebook has it, or the cell with two distributions of
\* the reader's choice
KlInit ==
    /\ \/ /\ P_x = QuantiseArr(P_x_value)
          /\ Q_x = QuantiseArr(Q_x_value)
       \/ \E d \in AllDists, e \in AllDists, rows \in 1..MaxKlRows :
             /\ Len(d) = Len(e)
             /\ P_x = BatchOf(d, rows)
             /\ Q_x = BatchOf(e, rows)
    /\ kl_out = [num |-> 0, den |-> 1]
    /\ kl_pc = "call"
    /\ IpIdle
    /\ FcnIdle
    /\ TrainIdle
    /\ FitIdle

KlCall ==
    /\ kl_pc = "call"
    /\ kl_out' = KLDivergence(P_x, Q_x)
    /\ kl_pc' = "done"
    /\ UNCHANGED <<P_x, Q_x, ipVars, fcnVars, trainVars, fitVars>>

KlNext == KlCall

SpecKL == KlInit /\ [][KlNext]_vars

(***************************************************************************)
(* Shapes.                                                                 *)
(***************************************************************************)
\* m is a matrix of shape p x q
IsMatrix(m, p, q) == Len(m) = p /\ \A a \in 1..p : Len(m[a]) = q

\* layer is a (weight, bias) pair with a p x q weight and a bias of length q
IsLayer(layer, p, q) ==
    /\ Len(layer) = 2
    /\ IsMatrix(layer[1], p, q)
    /\ Len(layer[2]) = q

(***************************************************************************)
(* C3: init_random_params(N), for N of length k >= 1, returns exactly k-1  *)
(* (weight, bias) pairs, pair i with a weight of shape N[i] x N[i+1] and a *)
(* bias of length N[i+1]; for NODE_width = [2, 20, 1] these are the two    *)
(* layers (2x20, 20) and (20x1, 1), as many as T = 2.                      *)
(***************************************************************************)
C3_ParamShapes ==
    (ip_pc = "done" /\ Len(N) >= 1) =>
        /\ Len(params) = Len(N) - 1
        /\ \A j \in 1..Len(params) : IsLayer(params[j], N[j], N[j + 1])
        /\ (N = NODE_width_value) =>
              /\ Len(params) = T_ODE
              /\ IsLayer(params[1], 2, 20)
              /\ IsLayer(params[2], 20, 1)

C3_Witness ==
    /\ ip_pc = "done"
    /\ N = NODE_width_value
    /\ Len(params) = 2

(***************************************************************************)
(* C2.  The activations of the feedforward pass: Act(th, x, 0) is the      *)
(* input, Act(th, x, j) is tanh of layer j's linear transform of           *)
(* Act(th, x, j-1).                                                        *)
(***************************************************************************)
Affine(x, layer) == AddBias(Dot(x, layer[1]), layer[2])

RECURSIVE Act(_, _, _)
Act(th, x, j) == IF j = 0 THEN x ELSE TanhArr(Affine(Act(th, x, j - 1), th[j]))

(***************************************************************************)
(* C2 as stated: fcn applies linear transform and tanh for every layer,    *)
(* the last included, and returns the last layer's tanh(xs.w + b).         *)
(***************************************************************************)
C2_ReturnsActivation ==
    (fcn_pc = "done" /\ Len(theta) >= 1) =>
        /\ outputs.status = "ok"
        /\ outputs.value = Act(theta, xs, Len(theta))

(***************************************************************************)
(* C2 as amended: for a non-empty theta, fcn feeds every layer the tanh of *)
(* the previous layer's linear transform, and returns the last layer's     *)
(* linear transform xs.w + b itself, without the tanh.                     *)
(***************************************************************************)
C2_ReturnsLastLinear ==
    (fcn_pc = "done" /\ Len(theta) >= 1) =>
        /\ outputs.status = "ok"
        /\ outputs.value = Affine(Act(theta, xs, Len(theta) - 1), theta[Len(theta)])

C2_Witness ==
    /\ fcn_pc = "done"
    /\ Len(theta) >= 2
    /\ outputs.status = "ok"
    /\ outputs.value # TanhArr(outputs.value)
    /\ Act(theta, xs, 1) # Affine(xs, theta[1])

(***************************************************************************)
(* The list NODE_theta refers to, and the shape of a parameter list.       *)
(***************************************************************************)
Theta == heap[NODE_theta]

ShapeOf(th) ==
    [j \in 1..Len(th) |->
        <<Len(th[j][1]), [a \in 1..Len(th[j][1]) |-> Len(th[j][1][a])], Len(th[j][2])>>]

InTraining == pc \in {"loop", "done", "NameError"}

\* a step of the training-loop cell that ran NODE_gd to its return
GdReturned == pc = "loop" /\ pc' = "loop" /\ range_pos' = range_pos + 1

(***************************************************************************)
(* C4 as stated: a step of the Example 0 training loop rebinds no global   *)
(* but NODE_theta (input, target, step_size, train_iters, NODE_width and   *)
(* every other global name, the loop variable i included, keep their       *)
(* values), and NODE_gd leaves the list it is given as it was.             *)
(***************************************************************************)
C4_OnlyThetaRebound ==
    [][InTraining =>
          /\ input' = input /\ target' = target /\ step_size' = step_size
          /\ train_iters' = train_iters /\ NODE_width' = NODE_width
          /\ NODE_L2loss' = NODE_L2loss /\ L2loss_bound' = L2loss_bound
          /\ i' = i
          /\ heap'[NODE_theta] = heap[NODE_theta]]_vars

(***************************************************************************)
(* C4 as amended: a step of the Example 0 training loop rebinds no global  *)
(* but NODE_theta and the loop variable i: input, target, step_size,       *)
(* train_iters and NODE_width keep their values, and NODE_gd leaves the    *)
(* list it is given as it was.                                             *)
(***************************************************************************)
C4_Frame ==
    [][InTraining =>
          /\ input' = input /\ target' = target /\ step_size' = step_size
          /\ train_iters' = train_iters /\ NODE_width' = NODE_width
          /\ NODE_L2loss' = NODE_L2loss /\ L2loss_bound' = L2loss_bound
          /\ heap'[NODE_theta] = heap[NODE_theta]]_vars

C4_Witness ==
    /\ pc = "loop"
    /\ range_pos >= 2
    /\ i = range_pos - 1
    /\ Len(Theta) >= 1
    /\ Theta # heap[Other(NODE_theta)]
    /\ input = input_value

(***************************************************************************)
(* C5: after any number of training iterations NODE_theta has the number   *)
(* of layers init_random_params(NODE_width) returned, every weight and     *)
(* bias has the shape it had then, and the list is shape-compatible with   *)
(* the feedforward pass.                                                   *)
(***************************************************************************)
C5_ShapeKept ==
    InTraining =>
        /\ ShapeOf(Theta) = ShapeOf(init_random_params(NODE_width, 0))
        /\ Len(NODE_width) >= 2 =>
              fcn(Theta, Grid(1, InWidth(NODE_width), 0)).status = "ok"

C5_Witness ==
    /\ pc = "done"
    /\ train_iters >= 2
    /\ range_pos = train_iters
    /\ L2loss_bound
    /\ Len(Theta) = 2
    /\ Theta # ScaleParams(init_random_params(NODE_width, 0), Scale)

(***************************************************************************)
(* C10: a call of NODE_gd returns a new list with one pair per layer of    *)
(* theta, in the same order, pair j being (w_j - step_size * dw_j,         *)
(* b_j - step_size * db_j), where (dw_j, db_j) is layer j of the gradient  *)
(* of NODE_L2loss at the old theta: every layer is updated from the same   *)
(* gradient.                                                               *)
(***************************************************************************)
C10_GdStep ==
    [][GdReturned =>
          LET old == heap[NODE_theta]
              new == heap'[NODE_theta']
              g   == GradOf(NODE_L2loss, old, input, target)
          IN  /\ gradients' = g
              /\ NODE_theta' # NODE_theta
              /\ ShapeOf(new) = ShapeOf(old)
              /\ \A j \in 1..Len(old) :
                    /\ \A a \in 1..Len(old[j][1]) : \A b \in 1..Len(old[j][1][a]) :
                          new[j][1][a][b] = old[j][1][a][b] - step_size * g[j][1][a][b]
                    /\ \A b \in 1..Len(old[j][2]) :
                          new[j][2][b] = old[j][2][b] - step_size * g[j][2][b]]_vars

C10_Witness ==
    /\ pc = "loop"
    /\ range_pos >= 1
    /\ Len(Theta) >= 2
    /\ gradients = GradOf(NODE_L2loss, heap[Other(NODE_theta)], input, target)
    /\ Theta = GdUpdate(heap[Other(NODE_theta)], gradients, step_size)
    /\ Theta # heap[Other(NODE_theta)]

(***************************************************************************)
(* C6: after every epoch the saved weights are those of an epoch whose     *)
(* training loss is the lowest so far, and an epoch whose loss does not    *)
(* improve on the best so far leaves the saved weights unchanged.          *)
(***************************************************************************)
LowestLoss(ls) == CHOOSE v \in {ls[e] : e \in 1..Len(ls)} : \A e \in 1..Len(ls) : v <= ls[e]

C6_SavedIsBest ==
    [][epoch' = epoch + 1 =>
          /\ saved' \in 1..epoch'
          /\ losses'[saved'] = LowestLoss(losses')
          /\ (epoch >= 1 /\ losses'[epoch'] >= LowestLoss(losses)) => saved' = saved]_vars

C6_Witness ==
    /\ fit_pc = "fit"
    /\ epoch >= 3
    /\ saved = 2
    /\ losses[1] > losses[2]
    /\ losses[3] >= losses[2]

(***************************************************************************)
(* The divergence as the notebook writes it:                               *)
(*   D_KL(P || Q) = - sum over x of P(x) log(Q(x) / P(x))                  *)
(* for distributions with no zero entry.                                   *)
(***************************************************************************)
\* log(q / p) for powers of two
LogRatio(q, p) == Lg(q) - Lg(p)

DKL(P, Q) == 0 - SumSeq([c \in 1..Len(P) |-> P[c] * LogRatio(Q[c], P[c])])

Positive(batch) == \A r \in 1..Len(batch) : \A c \in 1..Len(batch[r]) : batch[r][c] > 0

\* two distributions over four points: (1/2, 1/4, 1/8, 1/8) and (1/8, 1/2, 1/4, 1/8)
DistA == <<One \div 2, One \div 4, One \div 8, One \div 8>>
DistB == Rot(DistA, 3)

(***************************************************************************)
(* C7: the value kl(P_x, Q_x) returns is D_KL(P || Q) =                    *)
(* - sum_x P(x) log(Q(x)/P(x)) of the distributions given (averaged over   *)
(* the rows of the batch); it is 0 when the two arguments are the same,    *)
(* and it is asymmetric: D_KL(P || Q) and D_KL(Q || P) differ for the      *)
(* distributions DistA and DistB.                                          *)
(***************************************************************************)
C7_KlFormula ==
    kl_pc = "done" =>
        /\ kl_out.den = Len(P_x)
        /\ (Positive(P_x) /\ Positive(Q_x)) =>
              kl_out.num = SumSeq([r \in 1..Len(P_x) |-> DKL(P_x[r], Q_x[r])])
        /\ (P_x = Q_x) => kl_out.num = 0
        /\ KLDivergence(<<DistA>>, <<DistB>>).num = DKL(DistA, DistB)
        /\ KLDivergence(<<DistB>>, <<DistA>>).num = DKL(DistB, DistA)
        /\ DKL(DistA, DistB) # DKL(DistB, DistA)

C7_Witness ==
    /\ kl_pc = "done"
    /\ Positive(P_x) /\ Positive(Q_x)
    /\ Len(P_x) = 1
    /\ kl_out.num = DKL(P_x[1], Q_x[1])
    /\ kl_out.num # DKL(Q_x[1], P_x[1])
    /\ KLDivergence(P_x, P_x).num = 0


(***************************************************************************)
(* C11: when NODE_L2loss is bound, so that every call of NODE_gd returns,  *)
(* the Example 0 training loop ends, and it ends after exactly train_iters *)
(* calls of NODE_gd: the first call receives the list init_random_params   *)
(* returned and every later call the list the call before it returned.     *)
(***************************************************************************)
RECURSIVE GdChain(_, _, _, _, _, _)
GdChain(th, k, inp, tgt, step, loss) ==
    IF k = 0 THEN th
    ELSE GdChain(GdUpdate(th, GradOf(loss, th, inp, tgt), step), k - 1, inp, tgt,
                 step, loss)

InitialThetas ==
    {ScaleParams(init_random_params(NODE_width, r), Scale) : r \in 0..MaxRngPos}

C11_LoopEnds ==
    /\ [](L2loss_bound /\ InTraining =>
            /\ range_pos <= train_iters
            /\ pc = "done" => range_pos = train_iters
            /\ \E th0 \in InitialThetas :
                  Theta = GdChain(th0, range_pos, input, target, step_size,
                                  NODE_L2loss))
    /\ (L2loss_bound /\ InTraining) ~> (pc = "done" /\ range_pos = train_iters)

C11_Witness ==
    /\ pc = "done"
    /\ L2loss_bound
    /\ train_iters >= 3
    /\ i = train_iters - 1
    /\ range_pos = train_iters
    /\ NODE_width = NODE_width_value


(***************************************************************************)
(* C12: for theta = init_random_params(N) with len(N) >= 2 and a batch xs  *)
(* of m rows of width N[0], the array entering layer j of fcn has width    *)
(* N[j-1] and the weight it is multiplied by has N[j-1] rows, so every     *)
(* jnp.dot is defined, and fcn returns m rows of width N[-1]; for          *)
(* NODE_width = [2, 20, 1] the input rows have width 2 and the returned    *)
(* rows width 1, the width of the rows of input and target.                *)
(***************************************************************************)
RowsOfWidth(m, q) == \A a \in 1..Len(m) : Len(m[a]) = q

C12_ShapesCompatible ==
    \A n \in WidthLists, r \in 0..MaxRngPos :
        (/\ fcn_pc = "done"
         /\ Len(n) >= 2
         /\ theta = init_random_params(n, r)
         /\ RowsOfWidth(xs, n[1])) =>
            /\ \A j \in 1..Len(theta) :
                  /\ Len(theta[j][1]) = n[j]
                  /\ RowsOfWidth(Act(theta, xs, j - 1), n[j])
                  /\ DotOK(Act(theta, xs, j - 1), theta[j][1])
            /\ outputs.status = "ok"
            /\ IsMatrix(outputs.value, Len(xs), n[Len(n)])
            /\ n = NODE_width_value =>
                  /\ RowsOfWidth(xs, 2)
                  /\ RowsOfWidth(outputs.value, 1)
                  /\ RowsOfWidth(input_value, 1)
                  /\ RowsOfWidth(target_value, 1)

C12_Witness ==
    /\ fcn_pc = "done"
    /\ theta \in {init_random_params(NODE_width_value, r) : r \in 0..MaxRngPos}
    /\ Len(xs) = 2
    /\ RowsOfWidth(xs, 2)
    /\ outputs.status = "ok"
    /\ IsMatrix(outputs.value, 2, 1)


(***************************************************************************)
(* C13: with NODE_L2loss unbound (the exercises left unsolved) and         *)
(* train_iters >= 1, as in the notebook, the only step the training loop   *)
(* can take is the first iteration failing with NameError inside NODE_gd;  *)
(* after it nothing runs any more (the error is not caught, the loop       *)
(* neither goes on nor ends normally), no iteration has completed, and     *)
(* NODE_theta still refers to the unchanged list init_random_params        *)
(* returned.                                                               *)
(***************************************************************************)
C13_FailsOnUnboundLoss ==
    (~L2loss_bound /\ InTraining /\ train_iters >= 1) =>
        /\ pc \in {"loop", "NameError"}
        /\ pc = "loop" =>
              /\ range_pos = 0
              /\ ENABLED IterateNameError
              /\ ~ENABLED Iterate
              /\ ~ENABLED LoopExit
        /\ pc = "NameError" =>
              /\ range_pos = 1
              /\ i = 0
              /\ ~ENABLED TrainNext
        /\ NODE_theta = 1
        /\ Theta \in InitialThetas
        /\ heap[Other(NODE_theta)] = <<>>
        /\ gradients = <<>>

C13_Witness ==
    /\ pc = "NameError"
    /\ ~L2loss_bound
    /\ train_iters >= 2
    /\ i = 0
    /\ NODE_width = NODE_width_value
    /\ Theta \in InitialThetas


(***************************************************************************)
(* C14 as stated: the arrays P_x and Q_x the KL cell defines are           *)
(* probability distributions (no entry is negative and the entries of each *)
(* row, the axis the divergence sums over, add up to 1), so kl(P_x, Q_x)   *)
(* is taken between two distributions.                                     *)
(***************************************************************************)
IsDistribution(d) == (\A c \in 1..Len(d) : d[c] >= 0) /\ SumSeq(d) = One

C14_AreDistributions ==
    kl_pc \in {"call", "done"} =>
        /\ \A r \in 1..Len(P_x) : IsDistribution(P_x[r])
        /\ \A r \in 1..Len(Q_x) : IsDistribution(Q_x[r])


(***************************************************************************)
(* C15 as stated: once the data cell has run, component 0 of row i of the  *)
(* training target is y'(input[i]) and component 1 is y(input[i]), for     *)
(* every sample i, and the last Dense layer of the model has width 2, the  *)
(* width of a target row.                                                  *)
(***************************************************************************)
C15_TargetIsYPrimeThenY ==
    fit_pc \in {"model", "compiled"} =>
        /\ Len(target) = Len(input)
        /\ \A k \in 1..Len(input) :
              /\ Len(target[k]) = 2
              /\ target[k][1] = y_prime(input[k])
              /\ target[k][2] = y(input[k])
        /\ fit_pc = "compiled" => ODE_model[Len(ODE_model)].units = 2

============================================================================
